---- MODULE Spec2Model ----
(***************************************************************************)
(* VitaShop synthetic data generator (generate_synthetic_data.py).         *)
(*                                                                         *)
(* The script seeds the global random stream, builds a pool of customer    *)
(* profiles, synthesizes order lines customer by customer and writes them  *)
(* out once.  The model keeps the script's variables and loop positions    *)
(* as state and has one action per loop iteration.                         *)
(*                                                                         *)
(* Representation                                                          *)
(*  - Text that the script formats, splits, searches or parses is a        *)
(*    sequence of one-character strings; text it only copies is a string.  *)
(*  - None is the empty tuple and a present optional value v is <<v>>.     *)
(*  - A float is a fixed-point integer in units of 1/Scale.                *)
(*  - A date is a record [year, month, day]; date arithmetic goes through  *)
(*    proleptic Gregorian ordinals as in the datetime module.              *)
(*  - The random module's generator is a Lehmer generator over             *)
(*    1..Modulus-1; every call on a stream advances it by one step.        *)
(***************************************************************************)
EXTENDS Integers, Sequences, FiniteSets, TLC

(***************************************************************************)
(* Bounds of the model.                                                    *)
(***************************************************************************)
\* size of the customer pool (N_CUSTOMERS is 800 in the script)
NCustomers == 2
\* number of global seeds explored, starting at SEED
NumSeeds == 600

(***************************************************************************)
(* Text helpers.                                                           *)
(***************************************************************************)
DigitChars == <<"0", "1", "2", "3", "4", "5", "6", "7", "8", "9">>

\* str(n) for a natural number n
RECURSIVE Str(_)
Str(n) == IF n < 10 THEN <<DigitChars[n + 1]>>
          ELSE Str(n \div 10) \o <<DigitChars[(n % 10) + 1]>>

\* format spec "0<w>d": decimal digits, zero-padded on the left to width w
RECURSIVE ZeroPad(_, _)
ZeroPad(s, w) == IF Len(s) >= w THEN s ELSE ZeroPad(<<"0">> \o s, w)

FormatD(n, w) == ZeroPad(Str(n), w)

\* int(s) for a string of decimal digits
DigitValue(c) == CHOOSE d \in 0..9 : DigitChars[d + 1] = c

RECURSIVE ParseInt(_)
ParseInt(s) == IF s = <<>> THEN 0
               ELSE 10 * ParseInt(SubSeq(s, 1, Len(s) - 1)) + DigitValue(s[Len(s)])

\* sub in s
Contains(sub, s) ==
    \E k \in 1..(Len(s) - Len(sub) + 1) : SubSeq(s, k, k + Len(sub) - 1) = sub

\* s.split(sep) for a one-character separator
RECURSIVE Split(_, _)
Split(s, sep) ==
    IF \A k \in 1..Len(s) : s[k] # sep THEN <<s>>
    ELSE LET p == CHOOSE k \in 1..Len(s) :
                      s[k] = sep /\ \A m \in 1..(k - 1) : s[m] # sep
         IN  <<SubSeq(s, 1, p - 1)>> \o Split(SubSeq(s, p + 1, Len(s)), sep)

None == <<>>
Some(v) == <<v>>

(***************************************************************************)
(* Domain constants.                                                       *)
(***************************************************************************)
SEED == 42

BRANDS == <<"VitaShop Premium", "VitaShop Express", "VitaShop Pro">>
REGIONS == <<"Southeast", "South", "Northeast", "Midwest", "North">>
STORES == [k \in 1..30 |-> <<"S", "t", "o", "r", "e", "_">> \o FormatD(k, 3)]
PRODUCT_CATS ==
    << <<"S","u","p","p","l","e","m","e","n","t"," ","-"," ","P","r","o","t","e","i","n">>,
       <<"S","u","p","p","l","e","m","e","n","t"," ","-"," ","V","i","t","a","m","i","n","s">>,
       <<"D","e","v","i","c","e"," ","-"," ","M","o","n","i","t","o","r">>,
       <<"D","e","v","i","c","e"," ","-"," ","W","e","a","r","a","b","l","e">>,
       <<"S","e","r","v","i","c","e"," ","-"," ","N","u","t","r","i","t","i","o","n","i","s","t">>,
       <<"S","e","r","v","i","c","e"," ","-"," ","P","e","r","s","o","n","a","l"," ",
         "T","r","a","i","n","e","r">> >>
PAYMENT_METHODS == <<"credit_card", "vitashop_wallet", "health_plan">>
HEALTH_PLANS == <<"PlanA", "PlanB", "PlanC">>
FULFILLMENT == <<"IN_STORE_PICKUP", "HOME_DELIVERY">>
CHANNELS == <<"Organic Search", "Paid Search", "Direct",
              "Email", "Social", "Referral", "Unidentified">>
ORIGINS == <<"DIGITAL", "CALL_CENTER", "IN_STORE">>
GENDERS == <<"M", "F", "N/A">>
CAMPAIGNS == <<Some("brand_awareness_q1"), Some("retention_email_q2"),
               Some("black_friday"), Some("new_year_promo"), None, None, None>>
ORDER_COUNTS == <<1, 2, 3, 4, 5, 6, 8, 10, 12>>
ORDER_COUNT_WEIGHTS == <<30, 20, 15, 10, 8, 6, 5, 4, 2>>

(***************************************************************************)
(* datetime.date                                                           *)
(***************************************************************************)
Date(y, m, d) == [year |-> y, month |-> m, day |-> d]

IsLeap(y) == y % 4 = 0 /\ (y % 100 # 0 \/ y % 400 = 0)

DaysInMonth(y, m) ==
    IF m = 2 THEN (IF IsLeap(y) THEN 29 ELSE 28)
    ELSE IF m \in {4, 6, 9, 11} THEN 30 ELSE 31

DaysBeforeYear(y) ==
    (y - 1) * 365 + ((y - 1) \div 4) - ((y - 1) \div 100) + ((y - 1) \div 400)

RECURSIVE DaysBeforeMonth(_, _)
DaysBeforeMonth(y, m) ==
    IF m = 1 THEN 0 ELSE DaysBeforeMonth(y, m - 1) + DaysInMonth(y, m - 1)

\* date.toordinal()
ToOrdinal(dt) == DaysBeforeYear(dt.year) + DaysBeforeMonth(dt.year, dt.month) + dt.day

\* date.fromordinal(n)
FromOrdinal(ord) ==
    LET n0   == ord - 1
        n400 == n0 \div 146097
        r400 == n0 % 146097
        n100 == r400 \div 36524
        r100 == r400 % 36524
        n4   == r100 \div 1461
        r4   == r100 % 1461
        n1   == r4 \div 365
        n    == r4 % 365
        y    == n400 * 400 + 1 + n100 * 100 + n4 * 4 + n1
    IN  IF n1 = 4 \/ n100 = 4 THEN Date(y - 1, 12, 31)
        ELSE LET m == CHOOSE k \in 1..12 :
                          /\ DaysBeforeMonth(y, k) <= n
                          /\ n < DaysBeforeMonth(y, k) + DaysInMonth(y, k)
             IN  Date(y, m, n - DaysBeforeMonth(y, m) + 1)

\* date - timedelta(days=k)  and  date + timedelta(days=k)
DateMinusDays(dt, k) == FromOrdinal(ToOrdinal(dt) - k)
DatePlusDays(dt, k) == FromOrdinal(ToOrdinal(dt) + k)

\* (a - b).days
DaysBetween(a, b) == ToOrdinal(a) - ToOrdinal(b)

\* date.isoformat(): YYYY-MM-DD
IsoFormat(dt) ==
    FormatD(dt.year, 4) \o <<"-">> \o FormatD(dt.month, 2) \o <<"-">> \o FormatD(dt.day, 2)

START_DATE == Date(2022, 1, 1)
END_DATE == Date(2025, 12, 31)

(***************************************************************************)
(* The random module.  A stream is the state of its generator; every       *)
(* function takes the stream and returns the value drawn and the stream    *)
(* after the draw.                                                         *)
(***************************************************************************)
Modulus == 32749
Multiplier == 16807
Scale == 10000

Streams == 1..(Modulus - 1)

\* the generator state a seed value selects
SeedState(a) == (a % (Modulus - 1)) + 1

\* variant: the seed call leaves the stream as the import left it
RandomSeedIgnored(g, a) == g

\* random.seed(a): reseed the global stream g, whatever it was
RandomSeed(g, a) == SeedState(a)

\* random.Random(a): a fresh stream of its own
NewRandom(a) == SeedState(a)

Advance(g) == (Multiplier * g) % Modulus

\* random.random(): a float in [0, 1)
Random(g) ==
    LET g1 == Advance(g) IN [value |-> (g1 * Scale) \div Modulus, rng |-> g1]

\* an integer in 0 .. n-1
RandBelow(g, n) ==
    LET g1 == Advance(g) IN [value |-> (g1 * n) \div Modulus, rng |-> g1]

\* random.randint(a, b): an integer in a .. b
RandInt(g, a, b) ==
    LET r == RandBelow(g, b - a + 1) IN [value |-> a + r.value, rng |-> r.rng]

\* random.choice(seq)
Choice(g, seq) ==
    LET r == RandBelow(g, Len(seq)) IN [value |-> seq[r.value + 1], rng |-> r.rng]

\* random.uniform(a, b): a + (b - a) * random()
Uniform(g, a, b) ==
    LET r == Random(g) IN [value |-> a * Scale + (b - a) * r.value, rng |-> r.rng]

RECURSIVE SumTo(_, _)
SumTo(w, k) == IF k = 0 THEN 0 ELSE SumTo(w, k - 1) + w[k]

\* random.choices(population, weights, k=1)[0]:
\* population[bisect(cum_weights, random() * total, 0, n - 1)]
Choices(g, population, weights) ==
    LET r     == Random(g)
        n     == Len(population)
        total == SumTo(weights, n)
        below == Cardinality({k \in 1..(n - 1) : SumTo(weights, k) * Scale <= r.value * total})
    IN  [value |-> population[below + 1], rng |-> r.rng]

\* variant: round(x, 3)
Round3(x) ==
    LET unit == Scale \div 1000
        q    == x \div unit
        r    == x % unit
        up   == 2 * r > unit \/ (2 * r = unit /\ q % 2 = 1)
    IN  (IF up THEN q + 1 ELSE q) * unit

\* round(x, 2): nearest multiple of 0.01, ties to even
Round2(x) ==
    LET unit == Scale \div 100
        q    == x \div unit
        r    == x % unit
        up   == 2 * r > unit \/ (2 * r = unit /\ q % 2 = 1)
    IN  (IF up THEN q + 1 ELSE q) * unit

(***************************************************************************)
(* Helper utilities of the script.                                         *)
(***************************************************************************)
random_date(g, start, end) ==
    LET delta == DaysBetween(end, start)
        r     == RandInt(g, 0, delta)
    IN  [value |-> DatePlusDays(start, r.value), rng |-> r.rng]

random_birthdate(g) ==
    LET r == RandInt(g, 18 * 365, 80 * 365)
    IN  [value |-> DateMinusDays(END_DATE, r.value), rng |-> r.rng]

RECURSIVE CpfDigits(_, _)
CpfDigits(r, k) ==
    IF k = 0 THEN <<>>
    ELSE LET d == RandInt(r, 0, 9) IN Str(d.value) \o CpfDigits(d.rng, k - 1)

RECURSIVE AdvanceN(_, _)
AdvanceN(g, k) == IF k = 0 THEN g ELSE AdvanceN(Advance(g), k - 1)

\* variant: the digits are drawn from the global stream
fake_cpf_global(g, s) == [value |-> CpfDigits(g, 11), rng |-> AdvanceN(g, 11)]

\* fake_cpf draws from a stream of its own and returns the global stream g
\* as it found it
fake_cpf(g, s) ==
    LET r == NewRandom(s) IN [value |-> CpfDigits(r, 11), rng |-> g]

\* variant: the modulus is the length of another list
StoreRegionModBrands(store) == REGIONS[(ParseInt(Split(store, "_")[2]) % Len(BRANDS)) + 1]

\* REGIONS[int(store.split("_")[1]) % len(REGIONS)]
StoreRegion(store) == REGIONS[(ParseInt(Split(store, "_")[2]) % Len(REGIONS)) + 1]

\* one iteration of the customer loop: the profile built at position k
NewCustomer(g, k) ==
    LET bd     == random_birthdate(g)
        store  == Choice(bd.rng, STORES)
        region == StoreRegion(store.value)
        cpf    == fake_cpf(store.rng, k)
        gender == Choice(cpf.rng, GENDERS)
        brand  == Choice(gender.rng, BRANDS)
    IN  [value |-> [customer_id  |-> <<"C", "U", "S", "T", "_">> \o FormatD(k, 5),
                    customer_cpf |-> cpf.value,
                    gender       |-> gender.value,
                    birthdate    |-> bd.value,
                    brand        |-> brand.value,
                    region       |-> region,
                    store        |-> store.value],
         rng |-> brand.rng]

\* the revenue drawn for a product category
Revenue(g, product_cat) ==
    LET u == IF Contains(<<"D","e","v","i","c","e">>, product_cat) THEN Uniform(g, 150, 800)
             ELSE IF Contains(<<"S","e","r","v","i","c","e">>, product_cat) THEN Uniform(g, 80, 350)
             ELSE Uniform(g, 20, 150)
    IN  [value |-> Round2(u.value), rng |-> u.rng]

\* variant: the value is drawn whatever the condition
ConditionalAlways(g, cond, seq) == Choice(g, seq)

\* variant: the condition is inverted
ConditionalInverted(g, cond, seq) ==
    IF cond THEN [value |-> None, rng |-> g] ELSE Choice(g, seq)

\* x = random.choice(seq) if cond else None
Conditional(g, cond, seq) ==
    IF cond THEN Choice(g, seq) ELSE [value |-> None, rng |-> g]

SomeAll(seq) == [k \in 1..Len(seq) |-> Some(seq[k])]

\* one iteration of the order loop: the row built for customer cust with the
\* running counter at counter
NewRow(g, cust, counter) ==
    LET order_date  == random_date(g, START_DATE, END_DATE)
        payment     == Choice(order_date.rng, PAYMENT_METHODS)
        product_cat == Choice(payment.rng, PRODUCT_CATS)
        origin      == Choices(product_cat.rng, ORIGINS, <<55, 25, 20>>)
        channel     == Conditional(origin.rng, origin.value = "DIGITAL", SomeAll(CHANNELS))
        campaign    == Conditional(channel.rng, origin.value = "DIGITAL", CAMPAIGNS)
        modality    == Choice(campaign.rng, FULFILLMENT)
        quantity    == RandInt(modality.rng, 1, 5)
        revenue     == Revenue(quantity.rng, product_cat.value)
        health_plan == Conditional(revenue.rng, payment.value = "health_plan",
                                   SomeAll(HEALTH_PLANS))
        segment     == Choices(health_plan.rng, <<"B2C", "PREMIUM">>, <<80, 20>>)
        status      == Choices(segment.rng,
                               <<"COMPLETED", "COMPLETED", "COMPLETED", "CANCELLED">>,
                               <<90, 5, 4, 1>>)
    IN  [value |-> [order_line_id       |-> <<"O", "L", "_">> \o FormatD(counter, 7),
                    order_id            |-> <<"O", "R", "D", "_">> \o FormatD(counter, 7),
                    order_date          |-> IsoFormat(order_date.value),
                    customer_id         |-> cust.customer_id,
                    customer_cpf        |-> cust.customer_cpf,
                    customer_gender     |-> cust.gender,
                    customer_birthdate  |-> IsoFormat(cust.birthdate),
                    brand_name          |-> cust.brand,
                    region_name         |-> cust.region,
                    store_name          |-> cust.store,
                    product_category    |-> product_cat.value,
                    payment_method      |-> payment.value,
                    health_plan_name    |-> health_plan.value,
                    fulfillment_type    |-> modality.value,
                    booking_channel     |-> origin.value,
                    channel_group       |-> channel.value,
                    campaign_non_direct |-> campaign.value,
                    revenue_amount      |-> revenue.value,
                    quantity            |-> quantity.value,
                    market_segment      |-> segment.value,
                    is_excluded         |-> FALSE,
                    order_status        |-> status.value],
         rng |-> status.rng]

\* variant: any count from 1 to 12
DrawOrderCountRange(g) == RandInt(g, 1, 12)

\* the order count drawn for one customer
DrawOrderCount(g) == Choices(g, ORDER_COUNTS, ORDER_COUNT_WEIGHTS)

(***************************************************************************)
(* State.                                                                  *)
(***************************************************************************)
VARIABLES
    pc,             \* position in the script
    seed,           \* the argument of random.seed
    rng,            \* the global random stream
    customers,      \* the customer pool
    i,              \* index of the customer loop
    rows,           \* the order lines
    order_counter,  \* the running identifier counter
    cust_idx,       \* number of customers the order loop has taken
    n_orders,       \* order count of the current customer
    j,              \* orders generated for the current customer
    order_counts,   \* history: the order count drawn for each customer
    written,        \* number of order lines written to the CSV file
    run,            \* which run of the script this is
    prev            \* what the previous run used and produced

vars == <<pc, seed, rng, customers, i, rows, order_counter, cust_idx,
          n_orders, j, order_counts, written, run, prev>>

Seeds == {SEED + k : k \in 0..(NumSeeds - 1)}

\* the state of the global stream when the module is imported, before
\* random.seed: taken from the operating system's entropy
EntropyStates == {1, Modulus - 1}

NoRun == [seed |-> 0, customers |-> <<>>, rows |-> <<>>]

Init ==
    /\ pc = "seed"
    /\ seed \in Seeds
    /\ rng \in EntropyStates
    /\ customers = <<>>
    /\ i = 0
    /\ rows = <<>>
    /\ order_counter = 0
    /\ cust_idx = 0
    /\ n_orders = 0
    /\ j = 0
    /\ order_counts = <<>>
    /\ written = 0
    /\ run = 1
    /\ prev = NoRun

\* random.seed(42)
SeedStream ==
    /\ pc = "seed"
    /\ rng' = RandomSeed(rng, seed)
    /\ pc' = "customers"
    /\ UNCHANGED <<seed, customers, i, rows, order_counter, cust_idx, n_orders, j,
                   order_counts, written, run, prev>>

\* one iteration of: for i in range(N_CUSTOMERS)
GenCustomer ==
    /\ pc = "customers"
    /\ i < NCustomers
    /\ LET c == NewCustomer(rng, i)
       IN  /\ customers' = Append(customers, c.value)
           /\ rng' = c.rng
    /\ i' = i + 1
    /\ UNCHANGED <<pc, seed, rows, order_counter, cust_idx, n_orders, j,
                   order_counts, written, run, prev>>

\* variant: the counter starts at 0
StartOrdersAtZero ==
    /\ pc = "customers"
    /\ i = NCustomers
    /\ rows' = <<>>
    /\ order_counter' = 0
    /\ pc' = "orders"
    /\ UNCHANGED <<seed, rng, customers, i, cust_idx, n_orders, j,
                   order_counts, written, run, prev>>

\* rows = []; order_counter = 1
StartOrders ==
    /\ pc = "customers"
    /\ i = NCustomers
    /\ rows' = <<>>
    /\ order_counter' = 1
    /\ pc' = "orders"
    /\ UNCHANGED <<seed, rng, customers, i, cust_idx, n_orders, j,
                   order_counts, written, run, prev>>

\* for cust in customers: take the next customer and draw its order count
NextCustomer ==
    /\ pc = "orders"
    /\ j = n_orders
    /\ cust_idx < Len(customers)
    /\ LET n == DrawOrderCount(rng)
       IN  /\ n_orders' = n.value
           /\ rng' = n.rng
           /\ order_counts' = Append(order_counts, n.value)
    /\ cust_idx' = cust_idx + 1
    /\ j' = 0
    /\ UNCHANGED <<pc, seed, customers, i, rows, order_counter, written, run, prev>>

\* variant: the pool is walked backwards
GenOrderReversed ==
    /\ pc = "orders"
    /\ j < n_orders
    /\ LET r == NewRow(rng, customers[Len(customers) + 1 - cust_idx], order_counter)
       IN  /\ rows' = Append(rows, r.value)
           /\ rng' = r.rng
    /\ order_counter' = order_counter + 1
    /\ j' = j + 1
    /\ UNCHANGED <<pc, seed, customers, i, cust_idx, n_orders, order_counts,
                   written, run, prev>>

\* one iteration of: for _ in range(n_orders)
GenOrder ==
    /\ pc = "orders"
    /\ j < n_orders
    /\ LET r == NewRow(rng, customers[cust_idx], order_counter)
       IN  /\ rows' = Append(rows, r.value)
           /\ rng' = r.rng
    /\ order_counter' = order_counter + 1
    /\ j' = j + 1
    /\ UNCHANGED <<pc, seed, customers, i, cust_idx, n_orders, order_counts,
                   written, run, prev>>

\* write the CSV file and report len(rows)
WriteCSV ==
    /\ pc = "orders"
    /\ j = n_orders
    /\ cust_idx = Len(customers)
    /\ written' = Len(rows)
    /\ pc' = "done"
    /\ UNCHANGED <<seed, rng, customers, i, rows, order_counter, cust_idx, n_orders, j,
                   order_counts, run, prev>>

Next ==
    \/ SeedStream
    \/ GenCustomer
    \/ StartOrders
    \/ NextCustomer
    \/ GenOrder
    \/ WriteCSV

Spec == Init /\ [][Next]_vars

(***************************************************************************)
(* The customer pool built from any state of the global stream.            *)
(***************************************************************************)
InitPool ==
    /\ pc = "customers"
    /\ seed = SEED
    /\ rng \in Streams
    /\ customers = <<>>
    /\ i = 0
    /\ rows = <<>>
    /\ order_counter = 0
    /\ cust_idx = 0
    /\ n_orders = 0
    /\ j = 0
    /\ order_counts = <<>>
    /\ written = 0
    /\ run = 1
    /\ prev = NoRun

NextPool == GenCustomer

SpecPool == InitPool /\ [][NextPool]_vars

(***************************************************************************)
(* Two runs of the script, one after the other.  The second run starts     *)
(* from a fresh interpreter: every variable is back at its initial value   *)
(* and the global stream is again whatever the import made it.  prev keeps *)
(* the seed and the output of the first run.                               *)
(***************************************************************************)
Restart ==
    /\ pc = "done"
    /\ run = 1
    /\ prev' = [seed |-> seed, customers |-> customers, rows |-> rows]
    /\ run' = 2
    /\ seed' \in {seed, seed + 1}
    /\ rng' \in EntropyStates
    /\ pc' = "seed"
    /\ customers' = <<>>
    /\ i' = 0
    /\ rows' = <<>>
    /\ order_counter' = 0
    /\ cust_idx' = 0
    /\ n_orders' = 0
    /\ j' = 0
    /\ order_counts' = <<>>
    /\ written' = 0

NextTwoRuns ==
    \/ Next
    \/ Restart

SpecTwoRuns == Init /\ [][NextTwoRuns]_vars

(***************************************************************************)
(* Properties.                                                             *)
(***************************************************************************)
RowIds == 1..Len(rows)
PoolIds == 1..Len(customers)

\* C1: every order line whose booking_channel is not DIGITAL has neither a
\* channel_group nor a campaign_non_direct.
C1_NonDigitalHasNoAttribution ==
    \A k \in RowIds :
        rows[k].booking_channel # "DIGITAL" =>
            rows[k].channel_group = None /\ rows[k].campaign_non_direct = None

C1_Witness ==
    /\ pc = "done"
    /\ \E k \in RowIds : rows[k].booking_channel = "CALL_CENTER"
    /\ \E k \in RowIds : rows[k].booking_channel = "IN_STORE"
    /\ \E k \in RowIds : /\ rows[k].booking_channel = "DIGITAL"
                         /\ rows[k].channel_group # None
                         /\ rows[k].campaign_non_direct # None

\* C2: health_plan_name is one of PlanA, PlanB, PlanC when payment_method is
\* health_plan and is None for credit_card and vitashop_wallet.
C2_HealthPlanIffPayment ==
    \A k \in RowIds :
        /\ rows[k].payment_method \in {"credit_card", "vitashop_wallet", "health_plan"}
        /\ rows[k].payment_method = "health_plan" =>
               rows[k].health_plan_name \in {Some("PlanA"), Some("PlanB"), Some("PlanC")}
        /\ rows[k].payment_method # "health_plan" => rows[k].health_plan_name = None

C2_Witness ==
    /\ pc = "done"
    /\ \E k \in RowIds : rows[k].payment_method = "health_plan"
                         /\ rows[k].health_plan_name # None
    /\ \E k \in RowIds : rows[k].payment_method = "credit_card"
    /\ \E k \in RowIds : rows[k].payment_method = "vitashop_wallet"

\* the number an identifier carries after its prefix
IdNumber(id, prefix) ==
    IF Len(id) > Len(prefix) /\ SubSeq(id, 1, Len(prefix)) = prefix
    THEN ParseInt(SubSeq(id, Len(prefix) + 1, Len(id)))
    ELSE -1

\* C3: the k-th order line carries the number k in order_line_id and in
\* order_id, whichever customer it belongs to; while orders are generated the
\* counter is one more than the number of lines emitted.
C3_IdsContiguousFromOne ==
    /\ \A k \in RowIds :
           /\ IdNumber(rows[k].order_line_id, <<"O", "L", "_">>) = k
           /\ IdNumber(rows[k].order_id, <<"O", "R", "D", "_">>) = k
    /\ pc \in {"orders", "done"} => order_counter = Len(rows) + 1

C3_Witness ==
    /\ pc = "done"
    /\ Len(rows) >= 10
    /\ rows[1].customer_id # rows[Len(rows)].customer_id

\* the date n years before dt, for a dt that is not 29 February
YearsBefore(dt, n) == Date(dt.year - n, dt.month, dt.day)

\* C4: every customer's birthdate lies within
\* [END_DATE - 80 years, END_DATE - 18 years], both ends included.
C4_BirthdateWithinAgeWindow ==
    \A p \in PoolIds :
        /\ ToOrdinal(YearsBefore(END_DATE, 80)) <= ToOrdinal(customers[p].birthdate)
        /\ ToOrdinal(customers[p].birthdate) <= ToOrdinal(YearsBefore(END_DATE, 18))

Devices == {PRODUCT_CATS[3], PRODUCT_CATS[4]}
Services == {PRODUCT_CATS[5], PRODUCT_CATS[6]}
Supplements == {PRODUCT_CATS[1], PRODUCT_CATS[2]}

InRange(x, lo, hi) == lo * Scale <= x /\ x <= hi * Scale

\* C5: revenue_amount has at most two decimal places and lies in [150, 800]
\* for a Device, in [80, 350] for a Service and in [20, 150] otherwise,
\* according to the product_category of the same row.
C5_RevenueWithinClassBound ==
    \A k \in RowIds :
        /\ rows[k].revenue_amount % (Scale \div 100) = 0
        /\ rows[k].product_category \in Devices =>
               InRange(rows[k].revenue_amount, 150, 800)
        /\ rows[k].product_category \in Services =>
               InRange(rows[k].revenue_amount, 80, 350)
        /\ rows[k].product_category \notin (Devices \cup Services) =>
               InRange(rows[k].revenue_amount, 20, 150)

C5_Witness ==
    /\ pc = "done"
    /\ \E k \in RowIds : rows[k].product_category \in Devices
                         /\ rows[k].revenue_amount > 350 * Scale
    /\ \E k \in RowIds : rows[k].product_category \in Services
                         /\ rows[k].revenue_amount > 150 * Scale
    /\ \E k \in RowIds : rows[k].product_category \in Supplements
                         /\ rows[k].revenue_amount < 80 * Scale

RowsOf(p) == {k \in RowIds : rows[k].customer_id = customers[p].customer_id}

\* C6: when generation has finished, one order count from
\* {1,2,3,4,5,6,8,10,12} was drawn for each customer, each customer owns as
\* many order lines as its count, and the number of order lines is the sum
\* of the counts, between N and 12*N for a pool of N customers.
C6_RowCountIsSumOfOrderCounts ==
    pc = "done" =>
        /\ Len(order_counts) = Len(customers)
        /\ \A p \in PoolIds :
               /\ order_counts[p] \in {1, 2, 3, 4, 5, 6, 8, 10, 12}
               /\ Cardinality(RowsOf(p)) = order_counts[p]
        /\ Len(rows) = SumTo(order_counts, Len(order_counts))
        /\ Len(customers) <= Len(rows)
        /\ Len(rows) <= 12 * Len(customers)
        /\ written = Len(rows)

C6_Witness ==
    /\ pc = "done"
    /\ \E p \in PoolIds : order_counts[p] = 12
    /\ \E p \in PoolIds : order_counts[p] = 1

\* C7: a second run with the same seed produces the customer pool and the
\* order lines of the first run, field for field and in the same order.
C7_SameSeedSameOutput ==
    (run = 2 /\ pc = "done" /\ seed = prev.seed) =>
        customers = prev.customers /\ rows = prev.rows

C7_Witness ==
    /\ run = 2
    /\ pc = "done"
    /\ seed = prev.seed
    /\ Len(rows) >= 2
    /\ rows = prev.rows

IsCpf(s) == Len(s) = 11 /\ \A k \in 1..Len(s) : \E d \in 1..10 : s[k] = DigitChars[d]

\* the third and the fourth value drawn from the global stream g
ThirdDraw(g, seq) == Choice(Advance(Advance(g)), seq).value
FourthDraw(g, seq) == Choice(Advance(Advance(Advance(g))), seq).value

\* C8: the customer_cpf at a pool position is an 11-digit string that is the
\* same in both runs whatever their seeds, and building a customer takes
\* exactly the four draws of birthdate, store, gender and brand from the
\* global stream: gender and brand are its third and fourth values.
C8_CpfIsolatedFromSharedStream ==
    /\ [](\A p \in PoolIds :
              /\ IsCpf(customers[p].customer_cpf)
              /\ (run = 2 /\ p <= Len(prev.customers)) =>
                     customers[p].customer_cpf = prev.customers[p].customer_cpf)
    /\ [][(pc = "customers" /\ i < NCustomers) =>
              /\ rng' = Advance(Advance(Advance(Advance(rng))))
              /\ customers'[i'].gender = ThirdDraw(rng, GENDERS)
              /\ customers'[i'].brand = FourthDraw(rng, BRANDS)]_vars

C8_Witness ==
    /\ run = 2
    /\ seed # prev.seed
    /\ Len(customers) = NCustomers
    /\ \A p \in PoolIds : /\ customers[p] # prev.customers[p]
                          /\ customers[p].customer_cpf = prev.customers[p].customer_cpf

\* the date an ISO string YYYY-MM-DD denotes
ParseIso(s) ==
    Date(ParseInt(SubSeq(s, 1, 4)), ParseInt(SubSeq(s, 6, 7)), ParseInt(SubSeq(s, 9, 10)))

\* the row carries the profile fields of the customer
Snapshot(row, cust) ==
    /\ row.customer_id = cust.customer_id
    /\ row.customer_cpf = cust.customer_cpf
    /\ row.customer_gender = cust.gender
    /\ Len(row.customer_birthdate) = 10
    /\ ParseIso(row.customer_birthdate) = cust.birthdate
    /\ row.brand_name = cust.brand
    /\ row.region_name = cust.region
    /\ row.store_name = cust.store

\* the pool position of the customer a row names
Owner(k) == CHOOSE p \in PoolIds : customers[p].customer_id = rows[k].customer_id

\* C9: every order line is the snapshot of exactly one pool customer, a line
\* with a smaller identifier never belongs to a later customer, the lines of
\* one customer are consecutive, and the pool is not changed while orders
\* are generated.
C9_PoolOrderPreserved ==
    /\ [](/\ \A k \in RowIds :
                 /\ Cardinality({p \in PoolIds : customers[p].customer_id
                                                    = rows[k].customer_id}) = 1
                 /\ Snapshot(rows[k], customers[Owner(k)])
                 /\ Owner(k) <= cust_idx
          /\ \A a, b \in RowIds : a < b => Owner(a) <= Owner(b)
          /\ \A a, b, c \in RowIds :
                 (a < b /\ b < c /\ Owner(a) = Owner(c)) => Owner(b) = Owner(a))
    /\ [][(pc \in {"orders", "done"} /\ run' = run) => (customers' = customers)]_vars

C9_Witness ==
    /\ pc = "done"
    /\ Len(rows) >= 4
    /\ \E a, b \in RowIds : /\ a + 1 < b
                            /\ Owner(a) = 1
                            /\ Owner(b) = 2
                            /\ rows[a].store_name # rows[b].store_name
                            /\ rows[a].customer_birthdate # rows[b].customer_birthdate

\* C10: every customer's region is REGIONS[k mod 5] for the number k of its
\* store, so customers with the same store have the same region and order
\* lines with the same store_name have the same region_name.
C10_RegionIsFunctionOfStore ==
    /\ \A p \in PoolIds :
           \E k \in 1..30 : /\ customers[p].store = STORES[k]
                            /\ customers[p].region = REGIONS[(k % 5) + 1]
    /\ \A p, q \in PoolIds :
           customers[p].store = customers[q].store =>
               customers[p].region = customers[q].region
    /\ \A a, b \in RowIds :
           rows[a].store_name = rows[b].store_name =>
               rows[a].region_name = rows[b].region_name

C10_Witness ==
    /\ pc = "done"
    /\ customers[1].store = customers[2].store
    /\ customers[1].customer_id # customers[2].customer_id
    /\ \E a, b \in RowIds : Owner(a) = 1 /\ Owner(b) = 2

====
